---- MODULE Spec2Model ----
(***************************************************************************)
(* Model of kbd_release.py: select_key_events, the polling loop that       *)
(* infers key presses and releases from a terminal that only reports key   *)
(* repeats.  One action per statement group of the loop; a loop iteration  *)
(* is  Acquire, SetCbreak, Select, (Read | Tick), RestoreAttrs,            *)
(* SetBlocking.  The environment decides what select() and read() return   *)
(* and which system call or callback raises.  calibrate_keyboard_delays,   *)
(* which runs before the loop, is modelled the same way.                   *)
(***************************************************************************)
EXTENDS Integers, Sequences, FiniteSets, TLC

\* ------------------------------------------------------------------ bounds
MaxInitDelay == 3        \* kbd_init_delay_ms ranges over 1..MaxInitDelay
MaxRepeatDelay == 4      \* kbd_repeat_delay_ms ranges over 1..MaxRepeatDelay
MaxTimeout == 2          \* explicit select_timeout_ms ranges over 1..MaxTimeout
MaxPresses == 2          \* hook invocations counted per key
MaxConfigDelay == 12     \* range of kbd_repeat_delay_ms when only lines 29-32 run
MaxSustainDelay == 4     \* range of the delays in the sustained-repeat runs
NumCycles == 10          \* events counted in a sustained-repeat sequence
MaxSamples == 5          \* n of calibrate_keyboard_delays ranges over -1..MaxSamples
MaxLost == 1             \* keys discarded between two reads that the observers follow
MaxGap == 2              \* ms between two samples: 0..MaxGap, and the gaps of a real keyboard

\* ------------------------------------------------------- values of the code
Sentinel == <<4>>                 \* '\004', CTRL-D
KeyA     == <<97>>                \* 'a'
KeyUp    == <<27, 91, 65>>        \* '\x1b[A', Up Arrow
KeyCodes == {KeyA, KeyUp}
Auto == -1
EndOfFile == <<>>                 \* '': what read(3) returns when nothing is there to read (the
                                  \* descriptor is non-blocking), as at end of file
Chunks   == KeyCodes \cup {Sentinel, EndOfFile}   \* the chunks fed to the loop in the timing runs
KeyThenSentinel == <<97, 4>>      \* 'a\004': two pending bytes read as one chunk
AllChunks == Chunks \cup {KeyThenSentinel}   \* what sys.stdin.read(3) may return

Max2(a, b) == IF a >= b THEN a ELSE b
Min2(a, b) == IF a <= b THEN a ELSE b

NoInput == [ready |-> FALSE, chars |-> <<>>]
Input(chars) == [ready |-> TRUE, chars |-> chars]

TermAttrs == [echo : BOOLEAN, icanon : BOOLEAN]
Cooked == [echo |-> TRUE, icanon |-> TRUE]

VARIABLES
  \* arguments of select_key_events
  kbd_init_delay_ms, kbd_repeat_delay_ms, select_timeout_ms,
  up_hooks, down_hooks, \* the hook tables: key |-> "callback" (registered) or "noop"
                       \* (made by the factory of a defaultdict at a lookup)
  hooksDefault,        \* TRUE: the hook tables are defaultdicts (lines 96-97), as in the
                       \* call of lines 108-112; FALSE: plain dicts (the annotation of line 21)
  \* locals of select_key_events
  pressed, is_first_keypress, current_delay_ms,   \* dicts: functions on their keys
  keyOrder,            \* iteration order of pressed.keys() (insertion order)
  orig,                \* attributes saved by tcgetattr
  pc,                  \* position in the function
  outcome,             \* "none", "break" (line 46) or "exc" (an exception in flight)
  \* the terminal and the descriptor
  termAttrs, nonblock,
  hungUp,              \* the terminal has hung up: termios calls fail, select() returns at once
  \* observers (not read by the code)
  entryAttrs, entryNonblock,   \* terminal state when the function was called
  argTimeout,                  \* select_timeout_ms as passed
  upCalls, downCalls,          \* invocations of registered callbacks, per key
  idle,                        \* ms of timeouts since the key's last event (saturating)
  lastKind,                    \* kind of the key's last event: "none", "press", "repeat"
  relSince,                    \* release callbacks of the key since its last event
  nEvents,                     \* events of the key (saturating at evCap)
  spaced,                      \* the key's events so far are at most evCap and repeat/2 apart
  lost,                        \* events of the key discarded by TCSAFLUSH since its last read
  evCap,                       \* length of the event sequences the observers follow
  lastInput,                   \* what the latest wait returned: a chunk read, or a timeout
  \* calibrate_keyboard_delays
  cal                          \* its position, arguments, samples and results

args   == <<kbd_init_delay_ms, kbd_repeat_delay_ms, up_hooks, hooksDefault>>
dicts  == <<pressed, is_first_keypress, current_delay_ms, keyOrder>>
term   == <<termAttrs, nonblock>>
loop   == <<entryAttrs, entryNonblock, argTimeout, evCap>>
entry  == <<loop, cal, hungUp>>
calls  == <<upCalls, downCalls>>
seen   == <<idle, lastKind, relSince, nEvents, spaced>>
obs    == <<seen, lost>>
vars   == <<args, select_timeout_ms, down_hooks, dicts, orig, pc, outcome, term,
            entry, calls, obs, lastInput>>

\* ------------------------------------------------------------ dict helpers
\* defaultdict lookup: the stored value, or the factory's default
Get(d, k, dflt) == IF k \in DOMAIN d THEN d[k] ELSE dflt
\* d[k] = v
Put(d, k, v) == [x \in DOMAIN d \cup {k} |-> IF x = k THEN v ELSE d[x]]
EmptyDict == [x \in {} |-> FALSE]

\* ------------------------------------------------------- lines 29-32
\* (the _NoClamp, _NoDivide, ... definitions below are faulty variants of the
\* definition that follows them; the properties are checked to tell them apart)
PollTimeout_NoClamp(timeout, repeat) ==
  IF timeout = Auto THEN repeat \div 4 ELSE timeout
PollTimeout_NoDivide(timeout, repeat) ==
  IF timeout = Auto THEN (IF repeat <= 0 THEN 1 ELSE repeat) ELSE timeout
PollTimeout(timeout, repeat) ==
  IF timeout = Auto
  THEN (IF repeat \div 4 <= 0 THEN 1 ELSE repeat \div 4)
  ELSE timeout

\* ------------------------------------------------------- tty.setcbreak
SetCbreakMode(a) == [a EXCEPT !.echo = FALSE, !.icanon = FALSE]

\* line 45
IsExit(chars) == chars = Sentinel

\* lines 59-60, 63-64: the delay a pressed key has exceeded
ReleaseDue_InitOnly(first, delay) == delay > kbd_init_delay_ms
ReleaseDue_RepeatOnly(first, delay) == delay > kbd_repeat_delay_ms
ReleaseDue_AtThreshold(first, delay) ==
  IF first THEN delay >= kbd_init_delay_ms ELSE delay >= kbd_repeat_delay_ms
ReleaseDue(first, delay) ==
  IF first THEN delay > kbd_init_delay_ms ELSE delay > kbd_repeat_delay_ms

\* where control goes when the finally block is done
AfterFinally(o) ==
  IF o = "exc" THEN "raised" ELSE IF o = "break" THEN "done" ELSE "top"

\* ------------------------------------------- calibrate_keyboard_delays
\* the state of calibrate_keyboard_delays before it is called: lines 80-81
NotCalibrating ==
  [pc |-> "idle", n |-> 0, error |-> 0, chars |-> <<>>,
   kbd_init_delay_ms |-> 0, kbd_repeat_delay_ms |-> 0, exc |-> FALSE,
   restoreRaised |-> FALSE]

\* line 91: the intervals between consecutive samples from the second sample on
Deltas(ts) == [i \in 1..(Len(ts) - 2) |-> ts[i + 2] - ts[i + 1]]

\* sum() of a list
RECURSIVE Sum(_)
Sum(s) == IF s = <<>> THEN 0 ELSE Head(s) + Sum(Tail(s))

\* round() of the float nearest to p/q (q > 0): the integer nearest to p/q; when
\* p/q is exactly halfway between two integers the float product is a last-place
\* error above or below the half, and round() gives the one or the other
RoundOf(p, q) ==
  IF 2 * (p % q) < q THEN {p \div q}
  ELSE IF 2 * (p % q) > q THEN {p \div q + 1}
  ELSE {p \div q, p \div q + 1}

\* lines 90 and 92, on timestamps in milliseconds
\* round((chars[1][1] - chars[0][1]) * 1000 * (1 + error/100))
InitDelayOf(ts, error) == RoundOf((ts[2] - ts[1]) * (100 + error), 100)
\* round(sum(deltas)/len(deltas) * 1000 * (1 + error/100))
RepeatDelayOf(ts, error) ==
  RoundOf(Sum(Deltas(ts)) * (100 + error), 100 * Len(Deltas(ts)))

\* ------------------------------------------------------------------ Init
Start(inits, repeats, timeouts, hookSets, defaults, attrs, flags, cap) ==
  /\ hooksDefault \in defaults
  /\ kbd_init_delay_ms \in inits
  /\ kbd_repeat_delay_ms \in repeats
  /\ select_timeout_ms \in timeouts
  /\ up_hooks \in {[k \in S |-> "callback"] : S \in hookSets}
  /\ down_hooks \in {[k \in S |-> "callback"] : S \in hookSets}
  /\ pressed = EmptyDict
  /\ is_first_keypress = EmptyDict
  /\ current_delay_ms = EmptyDict
  /\ keyOrder = <<>>
  /\ termAttrs \in attrs
  /\ nonblock \in flags
  /\ orig = termAttrs
  /\ pc = "entry"
  /\ outcome = "none"
  /\ entryAttrs = termAttrs
  /\ entryNonblock = nonblock
  /\ argTimeout = select_timeout_ms
  /\ upCalls = [k \in AllChunks |-> 0]
  /\ downCalls = [k \in AllChunks |-> 0]
  /\ idle = [k \in AllChunks |-> 0]
  /\ lastKind = [k \in AllChunks |-> "none"]
  /\ relSince = [k \in AllChunks |-> 0]
  /\ nEvents = [k \in AllChunks |-> 0]
  /\ spaced = [k \in AllChunks |-> TRUE]
  /\ lost = [k \in AllChunks |-> 0]
  /\ hungUp = FALSE
  /\ evCap = cap
  /\ lastInput = NoInput
  /\ cal = NotCalibrating

\* ---------------------------------------------------------------- actions
\* lines 29-35
Configure ==
  /\ pc = "entry"
  /\ select_timeout_ms' = PollTimeout(select_timeout_ms, kbd_repeat_delay_ms)
  /\ pressed' = EmptyDict
  /\ is_first_keypress' = EmptyDict
  /\ current_delay_ms' = EmptyDict
  /\ keyOrder' = <<>>
  /\ pc' = "top"
  /\ UNCHANGED <<args, down_hooks, orig, outcome, term, entry, calls, obs, lastInput>>

\* lines 38-40: tcgetattr, set_nonblocking
Acquire ==
  /\ pc = "top"
  /\ ~hungUp
  /\ orig' = termAttrs
  /\ nonblock' = TRUE
  /\ pc' = "try"
  /\ UNCHANGED <<args, select_timeout_ms, down_hooks, dicts, outcome, termAttrs,
                 entry, calls, obs, lastInput>>

\* lines 38-40 raise (tcgetattr or fcntl fails): outside the try, nothing was changed
AcquireFails ==
  /\ pc = "top"
  /\ pc' = "raised"
  /\ outcome' = "exc"
  /\ UNCHANGED <<args, select_timeout_ms, down_hooks, dicts, orig, term,
                 entry, calls, obs, lastInput>>

\* tcsetattr(fd, TCSAFLUSH, ...), at line 69 and inside tty.setcbreak at line 42,
\* discards the input that was received and not read: a key written while the
\* loop was not waiting in select() is never read.  discarded holds the keys
\* lost this way; the observers count them for the keys they follow
Flush(discarded) ==
  lost' = [k \in AllChunks |->
             IF k \in discarded /\ spaced[k] /\ lastKind[k] # "none"
             THEN Min2(lost[k] + 1, MaxLost) ELSE lost[k]]

\* line 42
SetCbreak(discarded) ==
  /\ pc = "try"
  /\ ~hungUp
  /\ termAttrs' = SetCbreakMode(termAttrs)
  /\ Flush(discarded)
  /\ pc' = "select"
  /\ UNCHANGED <<args, select_timeout_ms, down_hooks, dicts, orig, outcome, nonblock,
                 entry, calls, seen, lastInput>>

\* an exception inside the try block: control goes to the finally block
Raise ==
  /\ outcome' = "exc"
  /\ pc' = "restore"

SetCbreakFails ==
  /\ pc = "try"
  /\ Raise
  /\ UNCHANGED <<args, select_timeout_ms, down_hooks, dicts, orig, term,
                 entry, calls, obs, lastInput>>

\* line 43: select() reports stdin readable
SelectReady ==
  /\ pc = "select"
  /\ select_timeout_ms >= 0
  /\ pc' = "read"
  /\ UNCHANGED <<args, select_timeout_ms, down_hooks, dicts, orig, outcome, term,
                 entry, calls, obs, lastInput>>

\* line 43: select() returns empty after select_timeout_ms
SelectTimeout ==
  /\ pc = "select"
  /\ select_timeout_ms >= 0
  /\ ~hungUp
  /\ pc' = "tick"
  /\ lastInput' = NoInput
  /\ UNCHANGED <<args, select_timeout_ms, down_hooks, dicts, orig, outcome, term,
                 entry, calls, obs>>

\* line 43 raises (a negative timeout is a ValueError; any call may fail)
SelectFails ==
  /\ pc = "select"
  /\ Raise
  /\ UNCHANGED <<args, select_timeout_ms, down_hooks, dicts, orig, term,
                 entry, calls, obs, lastInput>>

\* line 44 raises
ReadFails ==
  /\ pc = "read"
  /\ Raise
  /\ UNCHANGED <<args, select_timeout_ms, down_hooks, dicts, orig, term,
                 entry, calls, obs, lastInput>>

\* the other side of the terminal closes, at any point while the program runs
Hangup ==
  /\ ~hungUp
  /\ pc \notin {"done", "raised"}
  /\ cal.pc # "raised"
  /\ hungUp' = TRUE
  /\ UNCHANGED <<args, select_timeout_ms, down_hooks, dicts, orig, pc, outcome, term,
                 loop, cal, calls, obs, lastInput>>

\* lines 44-46: the chunk read is CTRL-D
ReadExit(chars) ==
  /\ pc = "read"
  /\ IsExit(chars)
  /\ lastInput' = Input(chars)
  /\ outcome' = "break"
  /\ pc' = "restore"
  /\ UNCHANGED <<args, select_timeout_ms, down_hooks, dicts, orig, term,
                 entry, calls, obs>>

\* gap ms of timeouts counted between two reads of a key whose events are
\* written repeat/2 apart, n of them discarded in between: the reads are
\* (n + 1) * repeat/2 apart and every timeout takes at least select_timeout_ms,
\* so at most that much was counted (less when the rounds of the loop take
\* longer); a gap at which the observers' clock has saturated is not followed
GapConforms(gap, n) ==
  /\ gap <= Max2(kbd_init_delay_ms, kbd_repeat_delay_ms)
  /\ 2 * gap <= (n + 1) * kbd_repeat_delay_ms

\* the observers' record of an event of key chars; they follow the keys of
\* KeyCodes, and of any other chunk only that it was read
ObserveEvent(chars, kind) ==
  /\ lastInput' = Input(chars)
  /\ IF chars \in KeyCodes
     THEN /\ idle' = [idle EXCEPT ![chars] = 0]
          /\ lastKind' = [lastKind EXCEPT ![chars] = kind]
          /\ relSince' = [relSince EXCEPT ![chars] = 0]
          /\ nEvents' = [nEvents EXCEPT ![chars] = Min2(@ + 1, evCap)]
          /\ spaced' = [spaced EXCEPT ![chars] =
                          IF nEvents[chars] >= evCap THEN FALSE
                          ELSE IF lastKind[chars] = "none" THEN TRUE
                          ELSE @ /\ GapConforms(idle[chars], lost[chars])]
          /\ lost' = [lost EXCEPT ![chars] = 0]
     ELSE UNCHANGED <<idle, lastKind, relSince, nEvents, spaced, lost>>

\* pressed[chars] on a defaultdict inserts the key
Touch(order, chars) == IF chars \in DOMAIN pressed THEN order ELSE Append(order, chars)

\* lines 44-52: an event of a key that is not pressed
KeyDown(chars) ==
  /\ pc = "read"
  /\ ~IsExit(chars)
  /\ ~Get(pressed, chars, FALSE)
  /\ upCalls[chars] < MaxPresses /\ downCalls[chars] < MaxPresses
  /\ current_delay_ms' = Put(current_delay_ms, chars, 0)
  /\ upCalls' = [upCalls EXCEPT ![chars] = IF chars \in DOMAIN up_hooks THEN @ + 1 ELSE @]
  /\ pressed' = Put(pressed, chars, TRUE)
  /\ is_first_keypress' = Put(is_first_keypress, chars, TRUE)
  /\ keyOrder' = Touch(keyOrder, chars)
  /\ ObserveEvent(chars, "press")
  /\ pc' = "restore"
  /\ UNCHANGED <<args, select_timeout_ms, down_hooks, orig, outcome, term, entry, downCalls>>

\* lines 44-50: the press callback raises
KeyDownHookRaises(chars) ==
  /\ pc = "read"
  /\ ~IsExit(chars)
  /\ ~Get(pressed, chars, FALSE)
  /\ upCalls[chars] < MaxPresses /\ downCalls[chars] < MaxPresses
  /\ chars \in DOMAIN up_hooks
  /\ current_delay_ms' = Put(current_delay_ms, chars, 0)
  /\ upCalls' = [upCalls EXCEPT ![chars] = @ + 1]
  /\ pressed' = Put(pressed, chars, FALSE)
  /\ keyOrder' = Touch(keyOrder, chars)
  /\ ObserveEvent(chars, "press")
  /\ Raise
  /\ UNCHANGED <<args, select_timeout_ms, down_hooks, is_first_keypress, orig, term,
                 entry, downCalls>>

\* faulty variant of KeyRepeat: the press callback is called on every event
KeyRepeat_AsPress(chars) ==
  /\ pc = "read"
  /\ ~IsExit(chars)
  /\ Get(pressed, chars, FALSE)
  /\ current_delay_ms' = Put(current_delay_ms, chars, 0)
  /\ upCalls' = [upCalls EXCEPT ![chars] = @ + 1]
  /\ is_first_keypress' = Put(is_first_keypress, chars, FALSE)
  /\ ObserveEvent(chars, "repeat")
  /\ pc' = "restore"
  /\ UNCHANGED <<args, select_timeout_ms, down_hooks, pressed, keyOrder, orig, outcome,
                 term, entry, downCalls>>

\* faulty variant of KeyRepeat: line 47 left out
KeyRepeat_NoReset(chars) ==
  /\ pc = "read"
  /\ ~IsExit(chars)
  /\ Get(pressed, chars, FALSE)
  /\ is_first_keypress' = Put(is_first_keypress, chars, FALSE)
  /\ ObserveEvent(chars, "repeat")
  /\ pc' = "restore"
  /\ UNCHANGED <<args, select_timeout_ms, down_hooks, pressed, current_delay_ms, keyOrder,
                 orig, outcome, term, entry, calls>>

\* lines 44-48, 53-54: an event of a key that is pressed
KeyRepeat(chars) ==
  /\ pc = "read"
  /\ ~IsExit(chars)
  /\ Get(pressed, chars, FALSE)
  /\ current_delay_ms' = Put(current_delay_ms, chars, 0)
  /\ is_first_keypress' = Put(is_first_keypress, chars, FALSE)
  /\ ObserveEvent(chars, "repeat")
  /\ pc' = "restore"
  /\ UNCHANGED <<args, select_timeout_ms, down_hooks, pressed, keyOrder, orig, outcome,
                 term, entry, calls>>

\* line 67: a key released after a repeat is a first keypress again (the
\* _Skip variant is faulty: it leaves the line out)
RearmFirst_Skip(first, d, chars) == d
RearmFirst(first, d, chars) == IF first THEN d ELSE Put(d, chars, TRUE)

\* lines 57-67 for one key of pressed.keys(); st is the loop's state so far,
\* raisers the keys whose release callback raises when called
TickKey(st, chars, raisers) ==
  IF ~st.pressed[chars] THEN st
  ELSE
    LET delay == st.delay[chars] + select_timeout_ms                       \* line 58
        first == Get(st.first, chars, TRUE)                                \* line 59
        timed == [st EXCEPT !.delay[chars] = delay]
        user  == chars \in DOMAIN st.hooks /\ st.hooks[chars] = "callback"
        hooks == IF chars \in DOMAIN st.hooks THEN st.hooks
                 ELSE Put(st.hooks, chars, "noop")                         \* defaultdict
        called == [timed EXCEPT !.hooks = hooks,
                                !.calls[chars] = IF user THEN @ + 1 ELSE @,
                                !.rel[chars] = IF user THEN @ + 1 ELSE @]
    IN IF ~ReleaseDue(first, delay) THEN timed
       ELSE IF chars \notin DOMAIN st.hooks /\ ~hooksDefault
            THEN [timed EXCEPT !.raised = TRUE]                            \* KeyError
       ELSE IF user /\ chars \in raisers
            THEN [called EXCEPT !.raised = TRUE]
       ELSE [called EXCEPT !.pressed[chars] = FALSE,                       \* lines 62, 66
                           !.first = RearmFirst(first, @, chars)]      \* line 67

\* lines 56-67: the for loop, from position i of pressed.keys()
RECURSIVE TickFrom(_, _, _)
TickFrom(i, st, raisers) ==
  IF i > Len(keyOrder) \/ st.raised THEN st
  ELSE TickFrom(i + 1, TickKey(st, keyOrder[i], raisers), raisers)

OnTick(raisers) ==
  TickFrom(1, [pressed |-> pressed, first |-> is_first_keypress,
               delay |-> current_delay_ms, hooks |-> down_hooks,
               calls |-> downCalls, rel |-> relSince, raised |-> FALSE], raisers)

\* the observers' clock: a timeout of select_timeout_ms has passed; it saturates
\* above both thresholds it is compared to
IdleCap == Max2(kbd_init_delay_ms, kbd_repeat_delay_ms) + 1
Elapse == [k \in AllChunks |-> IF lastKind[k] = "none" THEN 0
                            ELSE Min2(idle[k] + select_timeout_ms, IdleCap)]

TickEffect(res) ==
  /\ pressed' = res.pressed
  /\ is_first_keypress' = res.first
  /\ current_delay_ms' = res.delay
  /\ down_hooks' = res.hooks
  /\ downCalls' = res.calls
  /\ relSince' = res.rel
  /\ idle' = Elapse
  /\ UNCHANGED <<args, select_timeout_ms, keyOrder, orig, term, entry, upCalls,
                 lastKind, nEvents, spaced, lost, lastInput>>

\* lines 55-67: the timeout branch runs to its end
Tick ==
  /\ pc = "tick"
  /\ ~OnTick({}).raised
  /\ TickEffect(OnTick({}))
  /\ pc' = "restore"
  /\ UNCHANGED outcome

\* lines 55-67: a release callback raises (or is missing from a plain dict)
TickHookRaises ==
  /\ pc = "tick"
  /\ \E raisers \in SUBSET DOMAIN pressed :
       /\ OnTick(raisers).raised
       /\ TickEffect(OnTick(raisers))
  /\ Raise

\* line 69
RestoreAttrs(discarded) ==
  /\ pc = "restore"
  /\ ~hungUp
  /\ termAttrs' = orig
  /\ Flush(discarded)
  /\ pc' = "unblock"
  /\ UNCHANGED <<args, select_timeout_ms, down_hooks, dicts, orig, outcome, nonblock,
                 entry, calls, seen, lastInput>>

\* line 69 raises (termios.error, as on a terminal that has hung up): line 70 is
\* skipped and the exception leaves the function, whatever was in flight
RestoreAttrsFails ==
  /\ pc = "restore"
  /\ outcome' = "exc"
  /\ pc' = "raised"
  /\ UNCHANGED <<args, select_timeout_ms, down_hooks, dicts, orig, term,
                 entry, calls, obs, lastInput>>

\* line 70, then the exception propagates, the loop is left, or it goes round
SetBlocking ==
  /\ pc = "unblock"
  /\ nonblock' = FALSE
  /\ pc' = AfterFinally(outcome)
  /\ UNCHANGED <<args, select_timeout_ms, down_hooks, dicts, orig, outcome, termAttrs,
                 entry, calls, obs, lastInput>>

\* line 70 raises (fcntl fails)
SetBlockingFails ==
  /\ pc = "unblock"
  /\ outcome' = "exc"
  /\ pc' = "raised"
  /\ UNCHANGED <<args, select_timeout_ms, down_hooks, dicts, orig, term,
                 entry, calls, obs, lastInput>>

Next ==
  \/ Configure
  \/ Acquire
  \/ AcquireFails
  \/ \E discarded \in SUBSET KeyCodes : SetCbreak(discarded)
  \/ SetCbreakFails
  \/ SelectReady
  \/ SelectTimeout
  \/ SelectFails
  \/ ReadFails
  \/ \E chars \in Chunks : ReadExit(chars)
  \/ \E chars \in Chunks : KeyDown(chars)
  \/ \E chars \in Chunks : KeyDownHookRaises(chars)
  \/ \E chars \in Chunks : KeyRepeat(chars)
  \/ Tick
  \/ TickHookRaises
  \/ \E discarded \in SUBSET KeyCodes : RestoreAttrs(discarded)
  \/ RestoreAttrsFails
  \/ SetBlocking
  \/ SetBlockingFails
  \/ Hangup

\* ------------------------------------------- calibrate_keyboard_delays
\* what calibrate_keyboard_delays leaves alone: all of select_key_events, which
\* the script calls afterwards
calFrame == <<args, select_timeout_ms, down_hooks, dicts, pc, outcome, nonblock,
              loop, hungUp, calls, obs, lastInput>>

\* the timestamp of the next sample: time.monotonic() never goes back
Gaps == 0..MaxGap \cup {40, 300}
Margins == {0, 4, 10}

\* the for loop of lines 85-87 goes on while fewer than n samples were read
AfterRead(n, chars) == IF Len(chars) < n THEN "read" ELSE "restore"

\* lines 77-81: the call, tcgetattr
CalEnter(n, error) ==
  /\ pc = "entry" /\ cal.pc = "idle"
  /\ ~hungUp
  /\ orig' = termAttrs
  /\ cal' = [NotCalibrating EXCEPT !.pc = "cbreak", !.n = n, !.error = error]
  /\ UNCHANGED <<calFrame, termAttrs>>

\* line 77 or 79 raises (print, tcgetattr): outside the try, nothing was changed
CalEnterFails(n, error) ==
  /\ pc = "entry" /\ cal.pc = "idle"
  /\ cal' = [NotCalibrating EXCEPT !.pc = "raised", !.n = n, !.error = error]
  /\ UNCHANGED <<calFrame, termAttrs, orig>>

\* lines 83-85: setcbreak, the counter is printed and range(n) is entered
CalSetCbreak ==
  /\ cal.pc = "cbreak"
  /\ ~hungUp
  /\ termAttrs' = SetCbreakMode(termAttrs)
  /\ cal' = [cal EXCEPT !.pc = AfterRead(cal.n, cal.chars)]
  /\ UNCHANGED <<calFrame, orig>>

\* lines 83-84: setcbreak, then print raises (stdout fails)
CalPrintFails ==
  /\ cal.pc = "cbreak"
  /\ ~hungUp
  /\ termAttrs' = SetCbreakMode(termAttrs)
  /\ cal' = [cal EXCEPT !.pc = "restore", !.exc = TRUE]
  /\ UNCHANGED <<calFrame, orig>>

\* line 83 raises
CalSetCbreakFails ==
  /\ cal.pc = "cbreak"
  /\ cal' = [cal EXCEPT !.pc = "restore", !.exc = TRUE]
  /\ UNCHANGED <<calFrame, orig, termAttrs>>

\* line 86: the samples with one more, taken gap ms after the sample before it
\* (the first one, gap ms after time 0); read(1) returns a character, or '' on
\* a terminal that has hung up
Sampled(chars, gap) ==
  Append(chars, (IF chars = <<>> THEN 0 ELSE chars[Len(chars)]) + gap)

\* lines 85-87: one character is read and the counter is printed
CalRead(gap) ==
  /\ cal.pc = "read"
  /\ cal' = [cal EXCEPT !.chars = Sampled(cal.chars, gap),
                        !.pc = AfterRead(cal.n, Sampled(cal.chars, gap))]
  /\ UNCHANGED <<calFrame, orig, termAttrs>>

\* lines 86-87: one character is read, then print raises (stdout fails)
CalReadPrintFails(gap) ==
  /\ cal.pc = "read"
  /\ cal' = [cal EXCEPT !.chars = Sampled(cal.chars, gap), !.pc = "restore", !.exc = TRUE]
  /\ UNCHANGED <<calFrame, orig, termAttrs>>

\* line 86 raises
CalReadFails ==
  /\ cal.pc = "read"
  /\ cal' = [cal EXCEPT !.pc = "restore", !.exc = TRUE]
  /\ UNCHANGED <<calFrame, orig, termAttrs>>

\* lines 88-89: the finally block; then the exception of the try block
\* propagates, or line 90 is next
CalRestore ==
  /\ cal.pc = "restore"
  /\ ~hungUp
  /\ termAttrs' = orig
  /\ cal' = [cal EXCEPT !.pc = IF cal.exc THEN "raised" ELSE "compute"]
  /\ UNCHANGED <<calFrame, orig>>

\* line 89 raises (termios.error, as on a terminal that has hung up): the
\* attributes stay as they are and lines 90-94 do not run
CalRestoreFails ==
  /\ cal.pc = "restore"
  /\ cal' = [cal EXCEPT !.pc = "raised", !.restoreRaised = TRUE]
  /\ UNCHANGED <<calFrame, orig, termAttrs>>

\* lines 90-92 with at least three samples
CalCompute ==
  /\ cal.pc = "compute"
  /\ Len(cal.chars) >= 2
  /\ Len(Deltas(cal.chars)) # 0
  /\ \E a \in InitDelayOf(cal.chars, cal.error), b \in RepeatDelayOf(cal.chars, cal.error) :
       cal' = [cal EXCEPT !.kbd_init_delay_ms = a, !.kbd_repeat_delay_ms = b, !.pc = "ack"]
  /\ UNCHANGED <<calFrame, orig, termAttrs>>

\* line 90 raises IndexError (fewer than two samples: chars[1] does not exist)
CalIndexError ==
  /\ cal.pc = "compute"
  /\ Len(cal.chars) < 2
  /\ cal' = [cal EXCEPT !.pc = "raised"]
  /\ UNCHANGED <<calFrame, orig, termAttrs>>

\* line 92 raises ZeroDivisionError (two samples: deltas is empty); line 90 has
\* assigned kbd_init_delay_ms
CalZeroDivision ==
  /\ cal.pc = "compute"
  /\ Len(cal.chars) >= 2
  /\ Len(Deltas(cal.chars)) = 0
  /\ \E a \in InitDelayOf(cal.chars, cal.error) :
       cal' = [cal EXCEPT !.kbd_init_delay_ms = a, !.pc = "raised"]
  /\ UNCHANGED <<calFrame, orig, termAttrs>>

\* lines 93-94: input() returns a line (the operator presses enter, or a line
\* was typed ahead), the pair is returned
CalReturn ==
  /\ cal.pc = "ack"
  /\ cal' = [cal EXCEPT !.pc = "returned"]
  /\ UNCHANGED <<calFrame, orig, termAttrs>>

\* line 93 raises (input() at end of file, as on a terminal that has hung up)
CalInputFails ==
  /\ cal.pc = "ack"
  /\ cal' = [cal EXCEPT !.pc = "raised"]
  /\ UNCHANGED <<calFrame, orig, termAttrs>>

NextCalibrate ==
  \/ \E n \in (0 - 1)..MaxSamples, error \in Margins : CalEnter(n, error)
  \/ \E n \in (0 - 1)..MaxSamples, error \in Margins : CalEnterFails(n, error)
  \/ CalSetCbreak
  \/ CalPrintFails
  \/ CalSetCbreakFails
  \/ \E gap \in Gaps : CalRead(gap)
  \/ \E gap \in Gaps : CalReadPrintFails(gap)
  \/ CalReadFails
  \/ CalRestore
  \/ CalRestoreFails
  \/ CalCompute
  \/ CalIndexError
  \/ CalZeroDivision
  \/ CalReturn
  \/ CalInputFails
  \/ Hangup

\* the loop fed one key that has callbacks, the empty chunk and CTRL-D
NextKey ==
  \/ Configure
  \/ Acquire
  \/ AcquireFails
  \/ \E discarded \in SUBSET {KeyA} : SetCbreak(discarded)
  \/ SetCbreakFails
  \/ SelectReady
  \/ SelectTimeout
  \/ SelectFails
  \/ ReadFails
  \/ ReadExit(Sentinel)
  \/ \E chars \in {KeyA, EndOfFile} : KeyDown(chars)
  \/ KeyDownHookRaises(KeyA)
  \/ \E chars \in {KeyA, EndOfFile} : KeyRepeat(chars)
  \/ Tick
  \/ TickHookRaises
  \/ \E discarded \in SUBSET {KeyA} : RestoreAttrs(discarded)
  \/ RestoreAttrsFails
  \/ SetBlocking
  \/ SetBlockingFails
  \/ Hangup

\* ------------------------------------------------------------ specifications
\* the loop over a range of delays and timeouts, fed a key with callbacks and
\* the empty chunk, on a cooked blocking terminal
Init ==
  Start(1..MaxInitDelay, 1..MaxRepeatDelay, {Auto} \cup 1..MaxTimeout,
        {KeyCodes}, {TRUE}, {Cooked}, {FALSE}, 0)

Spec == Init /\ [][NextKey]_vars

\* the loop fed two keys with callbacks, the empty chunk and CTRL-D, on every
\* terminal state at entry
InitSession ==
  Start({1}, {1}, {Auto}, {KeyCodes}, {TRUE}, TermAttrs, BOOLEAN, 0)

SpecSession == InitSession /\ [][Next]_vars

\* the same loop when only one of the two keys has callbacks registered, in
\* defaultdicts and in plain dicts
InitUnregistered ==
  Start({1}, {1}, {Auto}, {{KeyA}}, BOOLEAN, {Cooked}, {FALSE}, 0)

SpecUnregistered == InitUnregistered /\ [][Next]_vars

\* lines 29-32 alone, over a range of arguments
InitConfig ==
  Start({1}, (0 - MaxConfigDelay)..MaxConfigDelay, (0 - MaxTimeout - 1)..(MaxTimeout + 1),
        {KeyCodes}, {TRUE}, {Cooked}, {FALSE}, 0)

SpecConfig == InitConfig /\ [][Configure]_vars

\* one key held down: its events are followed for NumCycles events
InitSustain ==
  Start(1..MaxSustainDelay, 1..MaxSustainDelay, {Auto},
        {KeyCodes}, {TRUE}, {Cooked}, {FALSE}, NumCycles)

SpecSustain == InitSustain /\ [][NextKey]_vars

\* the loop never stops between two steps; what select() returns is up to the
\* environment
InitFair ==
  Start({1}, {1}, {Auto}, {KeyCodes}, {TRUE}, {Cooked}, {FALSE}, 0)

FairSpec == InitFair /\ [][Next]_vars /\ WF_vars(Next)

\* the loop over explicit timeouts that are negative, zero and positive
InitTimeouts ==
  Start({1}, {1}, (0 - MaxTimeout)..MaxTimeout, {KeyCodes}, {TRUE}, {Cooked}, {FALSE}, 0)

SpecTimeouts == InitTimeouts /\ [][Next]_vars

\* calibrate_keyboard_delays alone, on every terminal state at entry
InitCalibrate ==
  Start({270}, {40}, {Auto}, {KeyCodes}, {TRUE}, TermAttrs, {FALSE}, 0)

SpecCalibrate == InitCalibrate /\ [][NextCalibrate]_vars

\* the loop fed chunks of every kind read(3) may return: a key code, CTRL-D, two
\* pending bytes read at once, and the empty string of a terminal at end of file
SomeChunks == {KeyA, Sentinel, EndOfFile, KeyThenSentinel}

NextChunks ==
  \/ Configure
  \/ Acquire
  \/ AcquireFails
  \/ \E discarded \in SUBSET {KeyA} : SetCbreak(discarded)
  \/ SetCbreakFails
  \/ SelectReady
  \/ SelectTimeout
  \/ SelectFails
  \/ ReadFails
  \/ \E chars \in SomeChunks : ReadExit(chars)
  \/ \E chars \in SomeChunks : KeyDown(chars)
  \/ \E chars \in SomeChunks : KeyDownHookRaises(chars)
  \/ \E chars \in SomeChunks : KeyRepeat(chars)
  \/ Tick
  \/ TickHookRaises
  \/ \E discarded \in SUBSET {KeyA} : RestoreAttrs(discarded)
  \/ RestoreAttrsFails
  \/ SetBlocking
  \/ SetBlockingFails
  \/ Hangup

InitChunks ==
  Start({1}, {1}, {Auto}, {KeyCodes}, {TRUE}, {Cooked}, {FALSE}, 0)

SpecChunks == InitChunks /\ [][NextChunks]_vars

\* ------------------------------------------------------------------ claims
IsPressed(k) == Get(pressed, k, FALSE)
HasRelease(k) == k \in DOMAIN down_hooks /\ down_hooks[k] = "callback"
NoFailure == outcome # "exc"

\* C1: after an event of key X observed while X was not pressed, followed by no
\* other event of X, the release callback of X has run exactly once and X is not
\* pressed as soon as the timeouts since that event add up to more than
\* kbd_init_delay_ms, and it has not run and X is pressed until then.
FirstHoldRelease ==
  \A X \in KeyCodes :
    (lastKind[X] = "press" /\ HasRelease(X) /\ NoFailure /\ select_timeout_ms >= 1) =>
      IF idle[X] > kbd_init_delay_ms
      THEN relSince[X] = 1 /\ ~IsPressed(X)
      ELSE relSince[X] = 0 /\ IsPressed(X)

FirstHoldReleased ==
  \E X \in KeyCodes :
    /\ lastKind[X] = "press" /\ HasRelease(X) /\ NoFailure /\ select_timeout_ms >= 1
    /\ idle[X] > kbd_init_delay_ms /\ kbd_init_delay_ms > select_timeout_ms
    /\ relSince[X] = 1 /\ ~IsPressed(X)
    /\ pc = "top" /\ lastInput = NoInput

\* C2: after a repeat event of key X (X was pressed, is_first_keypress[X] is
\* False), followed by no other event of X, the release callback of X has run
\* exactly once and X is not pressed as soon as the timeouts since that event
\* add up to more than kbd_repeat_delay_ms, and not before.
RepeatGapRelease ==
  \A X \in KeyCodes :
    (lastKind[X] = "repeat" /\ HasRelease(X) /\ NoFailure /\ select_timeout_ms >= 1) =>
      IF idle[X] > kbd_repeat_delay_ms
      THEN relSince[X] = 1 /\ ~IsPressed(X)
      ELSE relSince[X] = 0 /\ IsPressed(X) /\ ~is_first_keypress[X]

RepeatGapReleased ==
  \E X \in KeyCodes :
    /\ lastKind[X] = "repeat" /\ HasRelease(X) /\ NoFailure
    /\ idle[X] > kbd_repeat_delay_ms /\ kbd_repeat_delay_ms < kbd_init_delay_ms
    /\ idle[X] <= kbd_init_delay_ms
    /\ relSince[X] = 1 /\ ~IsPressed(X)
    /\ pc = "top"

\* C4: after an event of key X observed while X was not pressed, as long as the
\* timeouts since it add up to less than kbd_init_delay_ms, the release callback
\* of X has not run and X is pressed.
TransientNoRelease ==
  \A X \in KeyCodes :
    (lastKind[X] = "press" /\ NoFailure /\ idle[X] < kbd_init_delay_ms) =>
      relSince[X] = 0 /\ IsPressed(X)

TransientHeld ==
  \E X \in KeyCodes :
    /\ lastKind[X] = "press" /\ NoFailure
    /\ 0 < idle[X] /\ idle[X] < kbd_init_delay_ms
    /\ idle[X] > kbd_repeat_delay_ms
    /\ IsPressed(X) /\ relSince[X] = 0
    /\ pc = "top"

\* the events of key X have been written repeat/2 apart up to now, some of them
\* discarded before they were read, and the next one is not overdue
InSequence(X) ==
  /\ argTimeout = Auto /\ pc # "entry" /\ NoFailure
  /\ lastKind[X] # "none" /\ spaced[X]
  /\ GapConforms(idle[X], lost[X])

\* C3: with the default select_timeout_ms, while the events of key X arrive
\* kbd_repeat_delay_ms/2 apart (up to NumCycles events), the release callback of
\* X has not run and the press callback of X has run exactly once, for any
\* positive kbd_init_delay_ms and kbd_repeat_delay_ms.
SustainedRepeatAnyDelay ==
  \A X \in KeyCodes : InSequence(X) => downCalls[X] = 0 /\ upCalls[X] = 1

\* C5: whatever keys are pressed, the iteration that reads '\004' breaks out of
\* the loop without calling a callback; from then on no callback is called, the
\* finally block runs both its calls (tcsetattr, then set_blocking) and the
\* function returns.
SentinelExits ==
  [][ /\ (pc = "read" /\ lastInput' = Input(Sentinel)) =>
           (outcome' = "break" /\ pc' = "restore" /\ calls' = calls /\ dicts' = dicts)
      /\ outcome = "break" =>
           /\ calls' = calls /\ dicts' = dicts
           /\ pc \in {"restore", "unblock"}
           /\ (pc = "restore" /\ pc' # pc) =>
                (outcome' = "break" /\ pc' = "unblock" /\ termAttrs' = orig)
           /\ (pc = "unblock" /\ pc' # pc) =>
                (outcome' = "break" /\ pc' = "done" /\ nonblock' = FALSE /\ termAttrs' = orig)
      /\ pc' = "done" => outcome = "break"
    ]_vars

\* C6: whenever select_key_events is between two iterations or has been left
\* (by CTRL-D or by an exception), the terminal attributes and the O_NONBLOCK
\* flag of stdin are what they were when it was called.
SessionRestored ==
  pc \in {"top", "done", "raised"} =>
    (termAttrs = entryAttrs /\ nonblock = entryNonblock)

\* C7: an exception raised inside the try block (setcbreak, select, read or a
\* callback) sends control to the finally block, which restores the saved
\* attributes and then clears O_NONBLOCK before the exception leaves the
\* function; nothing runs after that, and the terminal then has the attributes
\* it had at entry (the change made by setcbreak is undone) and stdin is blocking.
ExceptionSafe ==
  [][ /\ (outcome # "exc" /\ outcome' = "exc" /\ pc \in {"try", "select", "read", "tick"}) =>
           pc' = "restore"
      /\ (outcome = "exc" /\ pc = "restore" /\ pc' # pc) =>
           (outcome' = "exc" /\ pc' = "unblock" /\ termAttrs' = orig /\ nonblock' = nonblock)
      /\ (outcome = "exc" /\ pc = "unblock" /\ pc' # pc) =>
           (outcome' = "exc" /\ pc' = "raised" /\ termAttrs' = entryAttrs /\ nonblock' = FALSE)
    ]_vars

\* C8: while the loop runs, whatever input arrives, a pressed key X that gets
\* no further event of its own is eventually released: the timeout branch
\* (lines 55-67) keeps being run.
TickCadence ==
  \A X \in KeyCodes :
    IsPressed(X) ~> (~IsPressed(X) \/ lastInput = Input(X) \/ pc \in {"done", "raised"})

\* C9 as stated: the default select_timeout_ms is at most kbd_repeat_delay_ms/2
\* for every kbd_repeat_delay_ms > 0.
AutoTimeoutHalfAnyDelay ==
  (pc # "entry" /\ argTimeout = Auto /\ kbd_repeat_delay_ms > 0) =>
    2 * select_timeout_ms <= kbd_repeat_delay_ms

\* C9 amended: the default select_timeout_ms is at most kbd_repeat_delay_ms/2
\* for every kbd_repeat_delay_ms >= 2.
AutoTimeoutHalf ==
  (pc # "entry" /\ argTimeout = Auto /\ kbd_repeat_delay_ms >= 2) =>
    2 * select_timeout_ms <= kbd_repeat_delay_ms

AutoTimeoutDerived ==
  /\ pc = "top" /\ argTimeout = Auto
  /\ kbd_repeat_delay_ms >= 8 /\ select_timeout_ms >= 2
  /\ 2 * select_timeout_ms <= kbd_repeat_delay_ms

\* C10: left at -1, select_timeout_ms becomes max(1, kbd_repeat_delay_ms / 4)
\* (integer quotient), which is at least 1 for every integer
\* kbd_repeat_delay_ms; any other value passed is used as it is.
DefaultTimeoutFormula ==
  pc # "entry" =>
    IF argTimeout = Auto
    THEN /\ select_timeout_ms = Max2(1, kbd_repeat_delay_ms \div 4)
         /\ select_timeout_ms >= 1
    ELSE select_timeout_ms = argTimeout

DefaultTimeoutClamped ==
  /\ pc = "top" /\ argTimeout = Auto
  /\ kbd_repeat_delay_ms < 4 /\ select_timeout_ms = 1


\* C11: select_key_events never waits in select() and never runs the timeout
\* branch with select_timeout_ms <= 0: once lines 29-32 have left
\* select_timeout_ms <= 0 (as an explicit 0 does), the function fails before it
\* reads a chunk, runs the timeout branch or handles a key event.
NonPositiveTimeoutFatal ==
  (pc # "entry" /\ select_timeout_ms <= 0) =>
    /\ pc \notin {"read", "tick", "done"}
    /\ \A k \in KeyCodes : lastKind[k] = "none"
    /\ lastInput = NoInput


\* C12: with the hook tables the program passes (the defaultdicts of lines
\* 96-97), a key without a registered callback is handled without calling a
\* callback and without an error: the iteration that reads it (no press callback
\* registered) leaves the callback counts as they are and sets pressed,
\* is_first_keypress and current_delay_ms as for any other key; an exception in
\* an iteration that reads comes from read() itself, before any key is handled,
\* or from a registered press callback that was called; a timeout while only
\* keys without a release callback are pressed leaves the callback counts as
\* they are, raises nothing, and counts and releases these keys as any other.
UnregisteredNoOp ==
  [][ hooksDefault =>
        /\ \A k \in KeyCodes :
             (pc = "read" /\ pc' # pc /\ outcome' = "none" /\ lastInput' = Input(k)
                /\ k \notin DOMAIN up_hooks) =>
               /\ calls' = calls
               /\ pressed'[k]
               /\ is_first_keypress'[k] = ~IsPressed(k)
               /\ current_delay_ms'[k] = 0
        /\ (pc = "read" /\ pc' # pc /\ outcome' # "none") =>
             \/ outcome' = "break" /\ lastInput' = Input(Sentinel)
             \/ outcome' = "exc" /\ dicts' = dicts /\ calls' = calls
             \/ /\ outcome' = "exc"
                /\ \E k \in DOMAIN up_hooks :
                     up_hooks[k] = "callback" /\ upCalls'[k] = upCalls[k] + 1
        /\ (pc = "tick" /\ pc' # pc /\ \A k \in DOMAIN pressed : pressed[k] => ~HasRelease(k)) =>
             /\ calls' = calls
             /\ outcome' = outcome
             /\ \A k \in DOMAIN pressed :
                  pressed[k] =>
                    /\ current_delay_ms'[k] = current_delay_ms[k] + select_timeout_ms
                    /\ pressed'[k] =
                         ~ReleaseDue(Get(is_first_keypress, k, TRUE), current_delay_ms'[k])
    ]_vars

UnregisteredKeyReleased ==
  /\ hooksDefault
  /\ KeyUp \notin DOMAIN up_hooks /\ ~HasRelease(KeyUp)
  /\ pc = "restore" /\ outcome = "none" /\ lastInput = NoInput
  /\ lastKind[KeyUp] = "press" /\ ~IsPressed(KeyUp)
  /\ current_delay_ms[KeyUp] > kbd_init_delay_ms
  /\ upCalls[KeyUp] = 0 /\ downCalls[KeyUp] = 0


\* C13: calibrate_keyboard_delays called with n < 3 (2, 1, 0 or negative) never
\* gets to return a pair of delays: it ends with an exception, and when the
\* exception leaves the function the terminal has the attributes it had when
\* the function was called.
CalibrateNeedsThree ==
  (cal.pc # "idle" /\ cal.n < 3) =>
    /\ cal.pc \notin {"ack", "returned"}
    /\ cal.pc = "compute" => Len(cal.chars) < 3
    /\ cal.pc = "raised" => termAttrs = entryAttrs

\* C14: with n >= 3 samples at non-decreasing millisecond timestamps t and
\* error = m >= 0, the pair returned is round((t[1] - t[0]) * (1 + m/100)) and
\* round of the mean of the n - 2 intervals after the first one times
\* (1 + m/100), round being that of the exact value (a half goes to the even
\* neighbour); for t = 0, 300, 340, 380, 420 it is (300, 40) with m = 0 and
\* (330, 44) with m = 10.
CalibrationFormula ==
  cal.pc \in {"ack", "returned"} =>
    LET t == cal.chars
        n == Len(t)
        m == cal.error
        Round(p, q) == IF 2 * (p % q) < q THEN p \div q
                       ELSE IF 2 * (p % q) > q THEN p \div q + 1
                       ELSE IF (p \div q) % 2 = 0 THEN p \div q ELSE p \div q + 1
    IN /\ n = cal.n /\ n >= 3
       /\ cal.kbd_init_delay_ms = Round((t[2] - t[1]) * (100 + m), 100)
       /\ cal.kbd_repeat_delay_ms = Round((t[n] - t[2]) * (100 + m), 100 * (n - 2))
       /\ (t = <<0, 300, 340, 380, 420>> /\ m = 0) =>
            (cal.kbd_init_delay_ms = 300 /\ cal.kbd_repeat_delay_ms = 40)
       /\ (t = <<0, 300, 340, 380, 420>> /\ m = 10) =>
            (cal.kbd_init_delay_ms = 330 /\ cal.kbd_repeat_delay_ms = 44)


\* C15: the iteration that reads a chunk c other than CTRL-D calls the press
\* callback of c once and sets pressed[c] and is_first_keypress[c] to True when c
\* was not pressed, and calls nothing and sets is_first_keypress[c] to False when
\* c was pressed; either way current_delay_ms[c] becomes 0, and pressed,
\* is_first_keypress and current_delay_ms of every other key stay as they were.
EventEffect ==
  [][ (pc = "read" /\ pc' # pc /\ outcome' = "none") =>
        LET c == lastInput'.chars
        IN /\ lastInput'.ready /\ c \in AllChunks \ {Sentinel}
           /\ IF IsPressed(c)
              THEN calls' = calls /\ is_first_keypress'[c] = FALSE
              ELSE /\ upCalls' = [upCalls EXCEPT ![c] = IF c \in DOMAIN up_hooks THEN @ + 1 ELSE @]
                   /\ downCalls' = downCalls
                   /\ is_first_keypress'[c] = TRUE
           /\ pressed'[c] = TRUE
           /\ current_delay_ms'[c] = 0
           /\ \A k \in AllChunks \ {c} :
                /\ (k \in DOMAIN pressed') = (k \in DOMAIN pressed)
                /\ Get(pressed', k, FALSE) = Get(pressed, k, FALSE)
                /\ Get(is_first_keypress', k, TRUE) = Get(is_first_keypress, k, TRUE)
                /\ Get(current_delay_ms', k, 0) = Get(current_delay_ms, k, 0)
           /\ down_hooks' = down_hooks
    ]_vars

RepeatEventBesideHeldKey ==
  /\ pc = "restore" /\ outcome = "none" /\ lastInput = Input(KeyA)
  /\ lastKind[KeyA] = "repeat" /\ IsPressed(KeyA) /\ ~is_first_keypress[KeyA]
  /\ current_delay_ms[KeyA] = 0 /\ upCalls[KeyA] = 1 /\ downCalls[KeyA] = 0
  /\ IsPressed(EndOfFile) /\ is_first_keypress[EndOfFile] /\ current_delay_ms[EndOfFile] > 0

\* C16: the iteration in which select() times out adds select_timeout_ms to
\* current_delay_ms of every pressed key and of no other key; a pressed key is
\* released (release callback called once, pressed set to False) exactly when
\* its new current_delay_ms is greater than kbd_init_delay_ms (is_first_keypress
\* True) or kbd_repeat_delay_ms (False); all pressed keys are evaluated in the
\* same iteration; a key that is not pressed gets no callback.
TimeoutEffect ==
  [][ (pc = "tick" /\ pc' # pc /\ outcome' = "none") =>
        /\ upCalls' = upCalls
        /\ \A k \in AllChunks :
             IF IsPressed(k)
             THEN LET d == current_delay_ms[k] + select_timeout_ms
                      threshold == IF Get(is_first_keypress, k, TRUE)
                                   THEN kbd_init_delay_ms ELSE kbd_repeat_delay_ms
                  IN /\ current_delay_ms'[k] = d
                     /\ IF d > threshold
                        THEN /\ downCalls'[k] = downCalls[k] + (IF HasRelease(k) THEN 1 ELSE 0)
                             /\ ~Get(pressed', k, FALSE)
                        ELSE downCalls'[k] = downCalls[k] /\ Get(pressed', k, FALSE)
             ELSE /\ downCalls'[k] = downCalls[k]
                  /\ ~Get(pressed', k, FALSE)
                  /\ (k \in DOMAIN current_delay_ms') = (k \in DOMAIN current_delay_ms)
                  /\ Get(current_delay_ms', k, 0) = Get(current_delay_ms, k, 0)
    ]_vars

TwoKeysReleasedTogether ==
  /\ pc = "restore" /\ outcome = "none" /\ lastInput = NoInput
  /\ kbd_repeat_delay_ms >= kbd_init_delay_ms + select_timeout_ms
  /\ keyOrder = <<KeyA, EndOfFile>> /\ upCalls[KeyA] = 1
  /\ lastKind[KeyA] = "press" /\ relSince[KeyA] = 1 /\ downCalls[KeyA] = 1
  /\ idle[KeyA] = current_delay_ms[KeyA]
  /\ \A k \in {KeyA, EndOfFile} :
       /\ ~IsPressed(k)
       /\ current_delay_ms[k] > kbd_init_delay_ms
       /\ current_delay_ms[k] - select_timeout_ms <= kbd_init_delay_ms
  /\ current_delay_ms[EndOfFile] = current_delay_ms[KeyA]


\* C18: for every key c, the press callback and the release callback of c are
\* called in turn, the press callback first: as long as no call has raised, the
\* press calls of c are one more than the release calls when pressed[c] is True
\* and as many when it is False, and every call changes one count by one.
HookAlternation ==
  /\ [](NoFailure =>
          \A c \in KeyCodes : upCalls[c] - downCalls[c] = IF IsPressed(c) THEN 1 ELSE 0)
  /\ [][ NoFailure' =>
           \A c \in KeyCodes :
             \/ upCalls'[c] = upCalls[c] /\ downCalls'[c] = downCalls[c]
             \/ /\ upCalls'[c] = upCalls[c] + 1 /\ downCalls'[c] = downCalls[c]
                /\ upCalls[c] = downCalls[c]
             \/ /\ downCalls'[c] = downCalls[c] + 1 /\ upCalls'[c] = upCalls[c]
                /\ upCalls[c] = downCalls[c] + 1
       ]_vars

PressedAgainAfterRelease ==
  /\ NoFailure /\ pc = "top"
  /\ upCalls[KeyA] = 2 /\ downCalls[KeyA] = 1 /\ IsPressed(KeyA)
  /\ EndOfFile \in DOMAIN pressed /\ ~IsPressed(EndOfFile)

\* C19: between two iterations, as long as nothing has raised, current_delay_ms
\* of a pressed key c is at most the threshold that applies to c
\* (kbd_init_delay_ms when is_first_keypress[c], else kbd_repeat_delay_ms) and is
\* select_timeout_ms times the number of timeouts since the last event of c;
\* the value at which c was released is above the threshold by at most
\* select_timeout_ms.
BoundedOvershoot ==
  (NoFailure /\ pc = "top") =>
    \A c \in AllChunks :
      /\ IsPressed(c) =>
           /\ current_delay_ms[c] <=
                (IF is_first_keypress[c] THEN kbd_init_delay_ms ELSE kbd_repeat_delay_ms)
           /\ c \in KeyCodes => current_delay_ms[c] = idle[c]
           /\ current_delay_ms[c] % select_timeout_ms = 0
      /\ (~IsPressed(c) /\ relSince[c] = 1) =>
           LET threshold == IF lastKind[c] = "press"
                            THEN kbd_init_delay_ms ELSE kbd_repeat_delay_ms
           IN /\ threshold < current_delay_ms[c]
              /\ current_delay_ms[c] <= threshold + select_timeout_ms

ReleasedAtFullOvershoot ==
  /\ NoFailure /\ pc = "top" /\ select_timeout_ms = 2
  /\ ~IsPressed(KeyA) /\ relSince[KeyA] = 1 /\ lastKind[KeyA] = "repeat"
  /\ current_delay_ms[KeyA] = kbd_repeat_delay_ms + select_timeout_ms
  /\ IsPressed(EndOfFile) /\ is_first_keypress[EndOfFile]
  /\ current_delay_ms[EndOfFile] = kbd_init_delay_ms /\ current_delay_ms[EndOfFile] > 0

\* C20: a key c that is not pressed has is_first_keypress[c] True (the default
\* for a key never seen); is_first_keypress[c] is False only while c is pressed
\* and the last event of c was a repeat.
FirstRepeatFlag ==
  \A c \in AllChunks :
    /\ ~IsPressed(c) => Get(is_first_keypress, c, TRUE)
    /\ ~Get(is_first_keypress, c, TRUE) =>
         (IsPressed(c) /\ (c \in KeyCodes => lastKind[c] = "repeat"))

RearmedAfterRepeatRelease ==
  /\ pc = "top"
  /\ ~IsPressed(KeyA) /\ lastKind[KeyA] = "repeat" /\ relSince[KeyA] = 1
  /\ is_first_keypress[KeyA] = TRUE
  /\ IsPressed(EndOfFile) /\ is_first_keypress[EndOfFile] = FALSE


\* C17: a chunk read at line 44 has at most 3 bytes and is handled whole, as one
\* key; every key that gets an entry in pressed, is_first_keypress or
\* current_delay_ms, or is looked up in the hook tables, has 1 to 3 bytes; the
\* loop is left normally exactly when the chunk read is the single byte CTRL-D,
\* and any other chunk is handled as a key event.
ChunkIsKeyCode ==
  /\ \A k \in DOMAIN pressed \cup DOMAIN is_first_keypress \cup DOMAIN current_delay_ms
              \cup DOMAIN down_hooks :
       1 <= Len(k) /\ Len(k) <= 3
  /\ lastInput.ready => Len(lastInput.chars) <= 3
  /\ (outcome = "break" \/ pc = "done") => lastInput = Input(Sentinel)
  /\ (lastInput.ready /\ lastInput.chars # Sentinel) =>
       (outcome # "break" /\ lastInput.chars \in DOMAIN current_delay_ms)

====
